---- MODULE Spec2Model ----
(***************************************************************************)
(* Clay Magnet (src/clay_magnet_addon.py): the tag registry, the tag /     *)
(* untag / filter / pose-mode commands, the proximity pick and the         *)
(* registration of the addon, as a state machine.                          *)
(*                                                                         *)
(* Host-owned data the addon only reads (pointer, bone geometry, the       *)
(* selected objects) are inputs of the handler that reads them.  Host data *)
(* the addon also writes (bone selection, active object, object mode) are  *)
(* variables, changed by the handlers and by the user through the host.    *)
(* Distances are compared through their squares (sqrt is monotone on the   *)
(* non-negative numbers), so the model stays in the integers.              *)
(***************************************************************************)
EXTENDS Integers, Sequences, FiniteSets

\* ------------------------------------------------------------------ bounds
MaxBones == 2

\* --------------------------------------------------------------- constants
HitboxDefault == 50
HitboxMin == 10

\* ------------------------------------------------------------------ domain
Bones == 1..MaxBones            \* pose bones of the armature, by name
NoBone == 0                     \* closest_bone = None
Armatures == {"Arm"}
Objects == {"Arm", "Mesh"}
NoObject == "None"              \* context.object is None
ObjType(o) == IF o \in Armatures THEN "ARMATURE" ELSE "MESH"

\* hitbox_size values the preference is set to
HitboxSizes == {HitboxMin, HitboxDefault}

\* pointer positions (event.mouse_region_x, event.mouse_region_y)
MousePts == {<<0, 0>>, <<6, 0>>}

\* world-space points <<x, y, w>>: x, y are the region coordinates the view
\* maps the point to, w <= 0 means the point is behind the view
HeadPts == {<<3, 4, 1>>, <<6, 8, 1>>, <<0, 0, -1>>}
ShapeNone == [kind |-> "NONE", verts |-> <<>>]
ShapeBroken == [kind |-> "BROKEN", verts |-> <<>>]
ShapeEmpty == [kind |-> "MESH", verts |-> <<>>]
ShapeMesh == [kind |-> "MESH", verts |-> << <<0, 0, 1>>, <<60, 80, 1>> >>]
Shapes == {ShapeNone, ShapeBroken, ShapeEmpty, ShapeMesh}
\* head and custom shape of a bone; a shape with vertices overrides the head,
\* so two heads are enough under it, and one under a shape without vertices
BoneGeoms ==
  {g \in [head : HeadPts, custom_shape : Shapes] :
     /\ g.custom_shape = ShapeMesh => g.head \in {<<3, 4, 1>>, <<0, 0, -1>>}
     /\ g.custom_shape = ShapeEmpty => g.head = <<3, 4, 1>>}

ClassList == << "CLAYMAGNET_Preferences", "CLAYMAGNET_OT_tag_bone",
                "CLAYMAGNET_OT_untag_bone", "CLAYMAGNET_OT_find_tagged",
                "CLAYMAGNET_OT_switch_pose_mode",
                "CLAYMAGNET_OT_select_transform", "CLAYMAGNET_PT_panel" >>

VARIABLES
  tagged_bones,        \* the registry: armature -> set of bone names
  keymaps,             \* the addon's list of (km, kmi), by keymap item id
  registered_classes,  \* classes registered with the host
  scene_prop,          \* bpy.types.Scene.clay_magnet_gizmo_user exists
  keymap_items,        \* items of the 'Pose' keymap of the addon keyconfig
  gizmo_user,          \* scene.clay_magnet_gizmo_user
  hitbox_size,         \* preferences.hitbox_size
  select,              \* armature -> set of bones with bone.select
  active,              \* context.object
  mode,                \* object -> object mode
  event,               \* the F / Shift+F press being dispatched, with the
                       \* geometry of the tagged bones in the view
  pre_tag,             \* history: the registry before the tag_bone just run
  last                 \* history: the handler just run, its inputs and result

vars == << tagged_bones, keymaps, registered_classes, scene_prop, keymap_items,
           gizmo_user, hitbox_size, select, active, mode, event, pre_tag, last >>

NoGeom == [b \in {} |-> ShapeNone]
NoPreTag == [valid |-> FALSE, reg |-> [a \in {} |-> {}], armature |-> NoObject,
             bones |-> {}]
NoEvent == [pending |-> FALSE, mouse |-> <<0, 0>>, shift |-> FALSE, geom |-> NoGeom]
Idle == [op |-> "none", result |-> "NONE", error |-> FALSE, shift |-> FALSE,
         chosen |-> NoBone, chosen_shape |-> "NONE", contested |-> FALSE,
         translate |-> FALSE, selected_objects |-> {}]

\* ----------------------------------------------------------------- helpers
\* tagged_bones[armature] when the armature is a key, no names otherwise
TagsOf(reg, armature) == IF armature \in DOMAIN reg THEN reg[armature] ELSE {}

\* mutant of NotArmature: only the missing object is refused
NotArmature_OnlyNone(obj) == obj = NoObject

\* `not armature or armature.type != 'ARMATURE'`
NotArmature(obj) == obj = NoObject \/ ObjType(obj) # "ARMATURE"

\* context.selected_pose_bones or []: the selected bones of the armature in
\* pose mode, nothing outside pose mode
SelectedPoseBones(sel, obj, md) ==
  IF obj \in Armatures /\ md[obj] = "POSE" THEN sel[obj] ELSE {}

\* iteration orders of a set
Orders(S) == {o \in [1..Cardinality(S) -> S] : \A i, j \in 1..Cardinality(S) : o[i] = o[j] => i = j}

\* --------------------------------------------------- tag / untag / filter
\* mutant of TagBoneExecute: the tag set is reset on every call
TagBoneExecute_Reset(reg, armature, bones) ==
  [a \in DOMAIN reg \cup {armature} |->
     IF a = armature THEN bones ELSE reg[a]]

\* tag_bone.execute, lines 59-63
TagBoneExecute(reg, armature, bones) ==
  [a \in DOMAIN reg \cup {armature} |-> 
     IF a = armature THEN TagsOf(reg, a) \cup bones ELSE reg[a]]

\* untag_bone.execute, lines 81-83
UntagBoneExecute(reg, armature, bones) ==
  IF armature \in DOMAIN reg
  THEN [reg EXCEPT ![armature] = @ \ bones]
  ELSE reg

\* find_tagged.execute, lines 101-103
FindTaggedExecute(reg, sel, armature) ==
  IF armature \in DOMAIN reg
  THEN [sel EXCEPT ![armature] = {b \in Bones : b \in reg[armature]}]
  ELSE sel

\* ------------------------------------------------------------------- pick
\* sum(verts, Vector()) / len(verts)
RECURSIVE SumVerts(_)
SumVerts(verts) ==
  IF verts = <<>> THEN <<0, 0, 0>>
  ELSE LET h == Head(verts)
           t == SumVerts(Tail(verts))
       IN <<h[1] + t[1], h[2] + t[2], h[3] + t[3]>>

Centroid(verts) ==
  LET s == SumVerts(verts)
      n == Len(verts)
  IN <<s[1] \div n, s[2] \div n, s[3] \div n>>

\* mutant of BoneCenter: a shape that cannot be read drops the candidate
BoneCenter_SkipBroken(g) ==
  IF g.custom_shape.kind = "BROKEN" THEN <<0, 0, -1>>
  ELSE IF g.custom_shape.kind = "MESH" /\ g.custom_shape.verts # <<>>
       THEN Centroid(g.custom_shape.verts)
       ELSE g.head

\* lines 155-166: the head, replaced by the centroid of the custom shape when
\* the shape has vertices; a shape that cannot be read leaves the head
BoneCenter(g) ==
  IF g.custom_shape.kind = "MESH" /\ g.custom_shape.verts # <<>>
  THEN Centroid(g.custom_shape.verts)
  ELSE g.head

\* location_3d_to_region_2d: <<>> stands for None
Location3dToRegion2d(p) == IF p[3] <= 0 THEN <<>> ELSE <<p[1], p[2]>>

\* ((mouse_pos - screen_pos).length) squared
DistSq(m, p) == (m[1] - p[1]) * (m[1] - p[1]) + (m[2] - p[2]) * (m[2] - p[2])

\* closest_bone = None, closest_dist = inf
NoClosest == [bone |-> NoBone, dist |-> -1]

\* mutant of ScanBone: the comparison with closest_dist is reversed
ScanBone_Farthest(acc, bone_name, geom, mouse_pos, hitbox) ==
  IF bone_name \notin Bones
  THEN acc
  ELSE LET screen_pos == Location3dToRegion2d(BoneCenter(geom[bone_name]))
       IN IF screen_pos = <<>> THEN acc
          ELSE LET dist == DistSq(mouse_pos, screen_pos)
               IN IF dist < hitbox * hitbox /\ (acc.bone = NoBone \/ dist > acc.dist)
                  THEN [bone |-> bone_name, dist |-> dist]
                  ELSE acc

\* one iteration of the loop, lines 153-176
ScanBone(acc, bone_name, geom, mouse_pos, hitbox) ==
  IF bone_name \notin Bones
  THEN acc                                     \* KeyError, caught at 175
  ELSE LET screen_pos == Location3dToRegion2d(BoneCenter(geom[bone_name]))
       IN IF screen_pos = <<>> THEN acc
          ELSE LET dist == DistSq(mouse_pos, screen_pos)
               IN IF dist < hitbox * hitbox /\ (acc.bone = NoBone \/ dist < acc.dist)
                  THEN [bone |-> bone_name, dist |-> dist]
                  ELSE acc

\* the loop of lines 151-176 over tagged_bones[armature] in the order `order`
RECURSIVE ScanFrom(_, _, _, _, _, _)
ScanFrom(acc, order, i, geom, mouse_pos, hitbox) ==
  IF i > Len(order) THEN acc
  ELSE ScanFrom(ScanBone(acc, order[i], geom, mouse_pos, hitbox),
                order, i + 1, geom, mouse_pos, hitbox)

ClosestBone(order, geom, mouse_pos, hitbox) ==
  ScanFrom(NoClosest, order, 1, geom, mouse_pos, hitbox).bone

\* mutant of PickSelect: the others are deselected with Shift held too
PickSelect_AlwaysSole(sel, closest_bone, shift) ==
  IF closest_bone = NoBone THEN sel ELSE {closest_bone}

\* mutant of PickSelect: a plain pick deselects even when no bone was chosen
PickSelect_DeselectsWithoutHit(sel, closest_bone, shift) ==
  IF closest_bone = NoBone
  THEN IF shift THEN sel ELSE {}
  ELSE IF shift THEN sel \cup {closest_bone} ELSE {closest_bone}

\* lines 178-185: the selection of the armature after the pick
PickSelect(sel, closest_bone, shift) ==
  IF closest_bone = NoBone THEN sel
  ELSE LET picked == sel \cup {closest_bone}
       IN IF ~shift
          THEN picked \ {other_bone \in Bones : other_bone # closest_bone}
          ELSE picked

\* mutant of PickTranslate: Shift is not looked at
PickTranslate_IgnoresShift(closest_bone, shift, gizmo) ==
  closest_bone # NoBone /\ ~gizmo

\* lines 178-190: whether bpy.ops.transform.translate is invoked
PickTranslate(closest_bone, shift, gizmo) ==
  closest_bone # NoBone /\ ~shift /\ ~gizmo

\* mutant of SelectTransformInvoke: the others are deselected only when the
\* gizmo-user flag is off
SelectTransformInvoke_GizmoKeepsSelection(reg, sel, armature, gizmo, hitbox, mouse_pos, shift, geom, order) ==
  LET closest_bone == IF armature \in DOMAIN reg
                      THEN ClosestBone(order, geom, mouse_pos, hitbox)
                      ELSE NoBone
  IN [chosen |-> closest_bone,
      select |-> [sel EXCEPT ![armature] =
                    IF closest_bone = NoBone THEN @
                    ELSE IF ~shift /\ ~gizmo THEN {closest_bone}
                         ELSE @ \cup {closest_bone}],
      translate |-> closest_bone # NoBone /\ ~shift /\ ~gizmo]

\* the projected squared distance of a bone to the pointer, -1 when the
\* projection fails
ProjectedDistSq(g, mouse_pos) ==
  LET screen_pos == Location3dToRegion2d(BoneCenter(g))
  IN IF screen_pos = <<>> THEN -1 ELSE DistSq(mouse_pos, screen_pos)

\* the tagged bones whose projected distance is below the hitbox radius
Hits(tags, geom, mouse_pos, hitbox) ==
  {b \in tags \cap Bones :
     /\ ProjectedDistSq(geom[b], mouse_pos) >= 0
     /\ ProjectedDistSq(geom[b], mouse_pos) < hitbox * hitbox}

\* select_transform.invoke as a whole
SelectTransformInvoke(reg, sel, armature, gizmo, hitbox, mouse_pos, shift, geom, order) ==
  LET closest_bone == IF armature \in DOMAIN reg
                      THEN ClosestBone(order, geom, mouse_pos, hitbox)
                      ELSE NoBone
  IN [chosen |-> closest_bone,
      select |-> [sel EXCEPT ![armature] = PickSelect(@, closest_bone, shift)],
      translate |-> PickTranslate(closest_bone, shift, gizmo)]

\* ----------------------------------------------------------- registration

\* bpy.utils.register_class over the classes from index i on: stops at the
\* first class the host already has (ValueError)
RECURSIVE RegisterClasses(_, _)
RegisterClasses(classes, i) ==
  IF i > Len(ClassList) THEN [classes |-> classes, ok |-> TRUE]
  ELSE IF ClassList[i] \in classes THEN [classes |-> classes, ok |-> FALSE]
       ELSE RegisterClasses(classes \cup {ClassList[i]}, i + 1)

\* bpy.utils.unregister_class over reversed(classes) from index i down:
\* stops at the first class the host does not have (RuntimeError)
RECURSIVE UnregisterClasses(_, _)
UnregisterClasses(classes, i) ==
  IF i < 1 THEN [classes |-> classes, ok |-> TRUE]
  ELSE IF ClassList[i] \notin classes THEN [classes |-> classes, ok |-> FALSE]
       ELSE UnregisterClasses(classes \ {ClassList[i]}, i - 1)

\* km.keymap_items.new(idname, 'F', 'PRESS', shift=...)
FreshId(items) ==
  CHOOSE n \in 1..(Len(items) + 1) : \A k \in 1..Len(items) : items[k].id # n

NewKeymapItem(items, shift) ==
  [id |-> FreshId(items), idname |-> "clay_magnet.select_transform",
   type |-> "F", value |-> "PRESS", shift |-> shift]

\* km.keymap_items.remove(kmi)
RemoveKeymapItem(items, id) == SelectSeq(items, LAMBDA it : it.id # id)

\* register(), lines 247-279
RegisterResult(classes, prop, items, kms) ==
  LET rc == RegisterClasses(classes, 1)
      kmi1 == NewKeymapItem(items, FALSE)
      items1 == Append(items, kmi1)
      kmi2 == NewKeymapItem(items1, TRUE)
  IN IF ~rc.ok
     THEN [classes |-> rc.classes, prop |-> prop, items |-> items,
           keymaps |-> kms, ok |-> FALSE]
     ELSE [classes |-> rc.classes, prop |-> TRUE,
           items |-> Append(items1, kmi2),
           keymaps |-> Append(Append(kms, kmi1.id), kmi2.id), ok |-> TRUE]

\* the loop of lines 283-284
RECURSIVE RemoveAll(_, _, _)
RemoveAll(items, kms, i) ==
  IF i > Len(kms) THEN items
  ELSE RemoveAll(RemoveKeymapItem(items, kms[i]), kms, i + 1)

\* mutant of UnregisterResult: the keymap list is cleared without removing
\* its items from the keymap
UnregisterResult_KeepsItems(classes, prop, items, kms) ==
  LET uc == UnregisterClasses(classes, Len(ClassList))
  IN IF ~uc.ok
     THEN [classes |-> uc.classes, prop |-> prop, items |-> items,
           keymaps |-> <<>>, ok |-> FALSE]
     ELSE IF ~prop
          THEN [classes |-> uc.classes, prop |-> prop, items |-> items,
                keymaps |-> <<>>, ok |-> FALSE]
          ELSE [classes |-> uc.classes, prop |-> FALSE, items |-> items,
                keymaps |-> <<>>, ok |-> TRUE]

\* unregister(), lines 281-300
UnregisterResult(classes, prop, items, kms) ==
  LET items1 == RemoveAll(items, kms, 1)
      uc == UnregisterClasses(classes, Len(ClassList))
  IN IF ~uc.ok
     THEN [classes |-> uc.classes, prop |-> prop, items |-> items1,
           keymaps |-> <<>>, ok |-> FALSE]
     ELSE IF ~prop
          THEN [classes |-> uc.classes, prop |-> prop, items |-> items1,
                keymaps |-> <<>>, ok |-> FALSE]
          ELSE [classes |-> uc.classes, prop |-> FALSE, items |-> items1,
                keymaps |-> <<>>, ok |-> TRUE]


\* switch_pose_mode.execute, lines 115-126; last_armature is the armature the
\* loop visits last
SwitchPoseModeExecute(md, act, selected_objects, last_armature) ==
  LET armatures == {obj \in selected_objects : ObjType(obj) = "ARMATURE"}
  IN IF armatures = {}
     THEN [mode |-> md, active |-> act, result |-> "CANCELLED"]
     ELSE [mode |-> [o \in Objects |-> IF o \in armatures THEN "POSE" ELSE md[o]],
           active |-> last_armature, result |-> "FINISHED"]

\* select_transform.poll, line 137
Poll(obj, md) == obj # NoObject /\ ObjType(obj) = "ARMATURE" /\ md[obj] = "POSE"

\* ------------------------------------------------------------------- state
Ran(op, result, error) ==
  [Idle EXCEPT !.op = op, !.result = result, !.error = error]

Init ==
  /\ tagged_bones = [a \in {} |-> {}]
  /\ keymaps = <<>>
  /\ registered_classes = {}
  /\ scene_prop = FALSE
  /\ keymap_items = <<>>
  /\ gizmo_user = FALSE
  /\ hitbox_size = HitboxDefault
  /\ select = [a \in Armatures |-> {}]
  /\ active = NoObject
  /\ mode = [o \in Objects |-> "OBJECT"]
  /\ event = NoEvent
  /\ pre_tag = NoPreTag
  /\ last = Idle

\* ---------------------------------------------------------------- handlers
\* Every handler runs to completion on one input event: none starts while a
\* key press is being dispatched.
register ==
  /\ ~event.pending
  /\ LET r == RegisterResult(registered_classes, scene_prop, keymap_items, keymaps)
     IN /\ registered_classes' = r.classes
        /\ scene_prop' = r.prop
        /\ keymap_items' = r.items
        /\ keymaps' = r.keymaps
        /\ last' = Ran("register", IF r.ok THEN "RETURNED" ELSE "RAISED", FALSE)
  /\ pre_tag' = NoPreTag
  /\ UNCHANGED << tagged_bones, gizmo_user, hitbox_size, select, active, mode, event >>

unregister ==
  /\ ~event.pending
  /\ LET r == UnregisterResult(registered_classes, scene_prop, keymap_items, keymaps)
     IN /\ registered_classes' = r.classes
        /\ scene_prop' = r.prop
        /\ keymap_items' = r.items
        /\ keymaps' = r.keymaps
        /\ last' = Ran("unregister", IF r.ok THEN "RETURNED" ELSE "RAISED", FALSE)
  /\ pre_tag' = NoPreTag
  /\ UNCHANGED << tagged_bones, gizmo_user, hitbox_size, select, active, mode, event >>

tag_bone ==
  /\ ~event.pending
  /\ "CLAYMAGNET_OT_tag_bone" \in registered_classes
  /\ IF NotArmature(active)
     THEN /\ last' = Ran("tag_bone", "CANCELLED", TRUE)
          /\ pre_tag' = NoPreTag
          /\ UNCHANGED tagged_bones
     ELSE LET bones == SelectedPoseBones(select, active, mode)
          IN /\ tagged_bones' = TagBoneExecute(tagged_bones, active, bones)
             /\ pre_tag' = [valid |-> TRUE, reg |-> tagged_bones,
                            armature |-> active, bones |-> bones]
             /\ last' = Ran("tag_bone", "FINISHED", FALSE)
  /\ UNCHANGED << keymaps, registered_classes, scene_prop, keymap_items,
                  gizmo_user, hitbox_size, select, active, mode, event >>

untag_bone ==
  /\ ~event.pending
  /\ "CLAYMAGNET_OT_untag_bone" \in registered_classes
  /\ IF NotArmature(active)
     THEN /\ last' = Ran("untag_bone", "CANCELLED", TRUE)
          /\ pre_tag' = NoPreTag
          /\ UNCHANGED tagged_bones
     ELSE LET bones == SelectedPoseBones(select, active, mode)
          IN /\ tagged_bones' = UntagBoneExecute(tagged_bones, active, bones)
             /\ pre_tag' = IF last.op = "tag_bone" /\ pre_tag.valid
                              /\ pre_tag.armature = active /\ pre_tag.bones = bones
                           THEN pre_tag ELSE NoPreTag
             /\ last' = Ran("untag_bone", "FINISHED", FALSE)
  /\ UNCHANGED << keymaps, registered_classes, scene_prop, keymap_items,
                  gizmo_user, hitbox_size, select, active, mode, event >>

find_tagged ==
  /\ ~event.pending
  /\ "CLAYMAGNET_OT_find_tagged" \in registered_classes
  /\ IF NotArmature(active)
     THEN /\ last' = Ran("find_tagged", "CANCELLED", TRUE)
          /\ UNCHANGED select
     ELSE /\ select' = FindTaggedExecute(tagged_bones, select, active)
          /\ last' = Ran("find_tagged", "FINISHED", FALSE)
  /\ pre_tag' = NoPreTag
  /\ UNCHANGED << tagged_bones, keymaps, registered_classes, scene_prop,
                  keymap_items, gizmo_user, hitbox_size, active, mode, event >>

switch_pose_mode ==
  /\ ~event.pending
  /\ "CLAYMAGNET_OT_switch_pose_mode" \in registered_classes
  /\ \E selected_objects \in SUBSET Objects :
       \E last_armature \in IF selected_objects \cap Armatures = {}
                            THEN {NoObject} ELSE selected_objects \cap Armatures :
         LET r == SwitchPoseModeExecute(mode, active, selected_objects, last_armature)
         IN /\ mode' = r.mode
            /\ active' = r.active
            /\ last' = [Ran("switch_pose_mode", r.result, r.result = "CANCELLED")
                          EXCEPT !.selected_objects = selected_objects]
  /\ pre_tag' = NoPreTag
  /\ UNCHANGED << tagged_bones, keymaps, registered_classes, scene_prop,
                  keymap_items, gizmo_user, hitbox_size, select, event >>

select_transform ==
  /\ event.pending
  /\ \E order \in Orders(TagsOf(tagged_bones, active)) :
       LET r == SelectTransformInvoke(tagged_bones, select, active, gizmo_user,
                                      hitbox_size, event.mouse, event.shift,
                                      event.geom, order)
       IN /\ select' = r.select
          /\ last' = [Ran("select_transform", "FINISHED", FALSE)
                        EXCEPT !.shift = event.shift, !.chosen = r.chosen,
                               !.chosen_shape =
                                 IF r.chosen = NoBone THEN "NONE"
                                 ELSE event.geom[r.chosen].custom_shape.kind,
                               !.contested =
                                 Cardinality(Hits(TagsOf(tagged_bones, active),
                                    event.geom, event.mouse, hitbox_size)) > 1,
                               !.translate = r.translate]
  /\ event' = NoEvent
  /\ pre_tag' = NoPreTag
  /\ UNCHANGED << tagged_bones, keymaps, registered_classes, scene_prop,
                  keymap_items, gizmo_user, hitbox_size, active, mode >>

\* ------------------------------------------------ the user, through the host
\* the user presses F or Shift+F over the view: a binding of lines 264-278
\* dispatches the press to select_transform when poll() holds
host_key_press ==
  /\ ~event.pending
  /\ "CLAYMAGNET_OT_select_transform" \in registered_classes
  /\ Poll(active, mode)
  /\ \E kmi \in 1..Len(keymap_items) :
       /\ keymap_items[kmi].idname = "clay_magnet.select_transform"
       /\ \E mouse_pos \in MousePts :
            \E geom \in [TagsOf(tagged_bones, active) -> BoneGeoms] :
              event' = [pending |-> TRUE, mouse |-> mouse_pos,
                        shift |-> keymap_items[kmi].shift, geom |-> geom]
  /\ last' = Ran("host_key_press", "NONE", FALSE)
  /\ pre_tag' = NoPreTag
  /\ UNCHANGED << tagged_bones, keymaps, registered_classes, scene_prop,
                  keymap_items, gizmo_user, hitbox_size, select, active, mode >>

\* the Gizmo User checkbox of the panel, line 231
set_gizmo_user ==
  /\ ~event.pending
  /\ scene_prop
  /\ gizmo_user' = ~gizmo_user
  /\ last' = Ran("set_gizmo_user", "NONE", FALSE)
  /\ pre_tag' = NoPreTag
  /\ UNCHANGED << tagged_bones, keymaps, registered_classes, scene_prop,
                  keymap_items, hitbox_size, select, active, mode, event >>

\* the Hitbox Size field of the preferences, line 43
set_hitbox_size ==
  /\ ~event.pending
  /\ "CLAYMAGNET_Preferences" \in registered_classes
  /\ \E h \in HitboxSizes \ {hitbox_size} : hitbox_size' = h
  /\ last' = Ran("set_hitbox_size", "NONE", FALSE)
  /\ pre_tag' = NoPreTag
  /\ UNCHANGED << tagged_bones, keymaps, registered_classes, scene_prop,
                  keymap_items, gizmo_user, select, active, mode, event >>

\* the user selects or deselects a bone of the armature in pose mode
host_select_bone ==
  /\ ~event.pending
  /\ active \in Armatures /\ mode[active] = "POSE"
  /\ \E b \in Bones :
       select' = [select EXCEPT ![active] =
                    IF b \in @ THEN @ \ {b} ELSE @ \cup {b}]
  /\ last' = Ran("host_select_bone", "NONE", FALSE)
  /\ pre_tag' = NoPreTag
  /\ UNCHANGED << tagged_bones, keymaps, registered_classes, scene_prop,
                  keymap_items, gizmo_user, hitbox_size, active, mode, event >>

\* the user makes another object (or none) the active one
host_set_active ==
  /\ ~event.pending
  /\ \E o \in (Objects \cup {NoObject}) \ {active} : active' = o
  /\ last' = Ran("host_set_active", "NONE", FALSE)
  /\ pre_tag' = NoPreTag
  /\ UNCHANGED << tagged_bones, keymaps, registered_classes, scene_prop,
                  keymap_items, gizmo_user, hitbox_size, select, mode, event >>

\* the user leaves pose mode on the active armature
host_set_object_mode ==
  /\ ~event.pending
  /\ active \in Armatures /\ mode[active] = "POSE"
  /\ mode' = [mode EXCEPT ![active] = "OBJECT"]
  /\ last' = Ran("host_set_object_mode", "NONE", FALSE)
  /\ pre_tag' = NoPreTag
  /\ UNCHANGED << tagged_bones, keymaps, registered_classes, scene_prop,
                  keymap_items, gizmo_user, hitbox_size, select, active, event >>

Next ==
  \/ register \/ unregister
  \/ tag_bone \/ untag_bone \/ find_tagged \/ switch_pose_mode
  \/ host_key_press \/ select_transform
  \/ set_gizmo_user \/ set_hitbox_size
  \/ host_select_bone \/ host_set_active \/ host_set_object_mode

Spec == Init /\ [][Next]_vars

\* ------------------------------------------------------------------ claims
\* a step of select_transform: the press is pending before it and handled by it
PickStep == event.pending /\ last'.op = "select_transform"
PickTags == TagsOf(tagged_bones, active)
PickHits == Hits(PickTags, event.geom, event.mouse, hitbox_size)

\* C1: for every tag set, pointer position and hitbox radius, the bone the
\* pick chooses, if any, is a tagged bone whose projected distance is below
\* the radius and not above that of any other tagged bone below the radius;
\* and a bone is chosen whenever some tagged bone is below the radius.
C1_PickChoosesNearestHit ==
  [][PickStep =>
       LET c == last'.chosen
       IN /\ c # NoBone =>
               /\ c \in PickHits
               /\ \A b \in PickHits :
                    ProjectedDistSq(event.geom[c], event.mouse)
                      <= ProjectedDistSq(event.geom[b], event.mouse)
          /\ PickHits # {} => c # NoBone]_vars

C1_Witness ==
  /\ last.op = "select_transform"
  /\ last.chosen # NoBone
  /\ last.contested

\* C2 as stated: a Shift pick never deselects a bone selected before it; a
\* plain pick always results in exactly one selected bone, the chosen one.
C2_Original ==
  [][PickStep =>
       IF event.shift
       THEN select[active] \subseteq select'[active]
       ELSE /\ Cardinality(select'[active]) = 1
            /\ select'[active] = {last'.chosen}]_vars

\* C2 amended: a Shift pick never deselects a bone selected before it; a plain
\* pick that chooses a candidate results in exactly one selected bone, the
\* chosen one.
C2_PickSelection ==
  [][PickStep =>
       IF event.shift
       THEN select[active] \subseteq select'[active]
       ELSE last'.chosen # NoBone =>
              /\ Cardinality(select'[active]) = 1
              /\ select'[active] = {last'.chosen}]_vars

C2_Witness ==
  /\ last.op = "select_transform"
  /\ ~last.shift
  /\ last.chosen # NoBone
  /\ select[active] = {last.chosen}

\* C3 as stated: tag_bone followed by untag_bone with the same selection on
\* the same armature restores the pre-tag membership: every armature has the
\* tagged bones it had before the tag.
C3_Original ==
  (last.op = "untag_bone" /\ pre_tag.valid) =>
    \A a \in Armatures : TagsOf(tagged_bones, a) = TagsOf(pre_tag.reg, a)

\* C3 amended: tag_bone followed by untag_bone with the same selection on the
\* same armature leaves the armature with its pre-tag tag set minus the
\* selected bones (an empty tag set when it had none) and every other entry
\* as it was; the registry is as before the tag exactly when the armature had
\* a tag set and none of the selected bones was in it.
C3_TagUntag ==
  (last.op = "untag_bone" /\ pre_tag.valid) =>
    LET a == pre_tag.armature
        before == pre_tag.reg
    IN /\ DOMAIN tagged_bones = DOMAIN before \cup {a}
       /\ tagged_bones[a] = TagsOf(before, a) \ pre_tag.bones
       /\ \A o \in DOMAIN before \ {a} : tagged_bones[o] = before[o]
       /\ (tagged_bones = before) <=>
            (a \in DOMAIN before /\ before[a] \cap pre_tag.bones = {})

C3_Witness ==
  /\ last.op = "untag_bone"
  /\ pre_tag.valid
  /\ pre_tag.bones # {}
  /\ pre_tag.armature \in DOMAIN pre_tag.reg
  /\ tagged_bones = pre_tag.reg

\* C4: after find_tagged runs on an active armature, the selected bones of the
\* armature are exactly the bones of its tag set, for every prior selection
\* and registry, an armature that was never tagged included.
C4_FindTaggedSelectsTagSet ==
  (last.op = "find_tagged" /\ last.result = "FINISHED") =>
    select[active] = TagsOf(tagged_bones, active)

\* C5: if no tagged bone of the active armature has a projected distance below
\* the hitbox radius, the pick changes no bone's selection, with or without
\* Shift, and starts no transform.
C5_NoHitNoChange ==
  [][(PickStep /\ PickHits = {}) =>
       /\ select' = select
       /\ ~last'.translate]_vars

C5_Witness ==
  /\ last.op = "select_transform"
  /\ last.chosen = NoBone
  /\ TagsOf(tagged_bones, active) # {}
  /\ select[active] # {}
  /\ ~last.translate

\* the commands of C6 and what they must leave alone
C6Commands == {"tag_bone", "untag_bone", "find_tagged", "switch_pose_mode"}
C6NoEffect ==
  /\ tagged_bones' = tagged_bones
  /\ select' = select
  /\ mode' = mode

\* C6 as stated: tag_bone, untag_bone, find_tagged and switch_pose_mode, run
\* with no armature as the active object or outside pose mode, report an
\* error and leave the registry, the selection and the object mode alone.
C6_Original ==
  [][(/\ ~event.pending
      /\ last'.op \in C6Commands
      /\ (active \notin Armatures \/ mode[active] # "POSE")) =>
       (last'.error /\ C6NoEffect)]_vars

\* C6 amended: tag_bone, untag_bone and find_tagged run with no armature as
\* the active object, and switch_pose_mode run with no armature among the
\* selected objects, report an error and leave the registry, the selection,
\* the object mode and the active object alone.
C6_NoArmatureNoEffect ==
  [][(/\ ~event.pending
      /\ \/ /\ last'.op \in {"tag_bone", "untag_bone", "find_tagged"}
            /\ active \notin Armatures
         \/ /\ last'.op = "switch_pose_mode"
            /\ last'.selected_objects \cap Armatures = {}) =>
       /\ last'.error
       /\ last'.result = "CANCELLED"
       /\ C6NoEffect
       /\ active' = active]_vars

C6_Witness ==
  /\ last.op = "tag_bone"
  /\ last.result = "CANCELLED"
  /\ last.error
  /\ active = "Mesh"
  /\ select["Arm"] # {}

\* C7 as stated: a tagged bone whose custom display geometry cannot be read is
\* never the bone the pick chooses.
C7_Original ==
  last.op = "select_transform" => last.chosen_shape # "BROKEN"

\* the projected squared distance of the head of a bone, -1 when the
\* projection fails
HeadDistSq(g, mouse_pos) ==
  IF g.head[3] <= 0 THEN -1
  ELSE (mouse_pos[1] - g.head[1]) * (mouse_pos[1] - g.head[1])
         + (mouse_pos[2] - g.head[2]) * (mouse_pos[2] - g.head[2])

\* C7 amended: a tagged bone whose custom display geometry cannot be read
\* stays a candidate with its head as anchor, and the pick chooses among all
\* tagged bones by the nearest-within-radius rule.
C7_BrokenShapeKeepsHead ==
  [][PickStep =>
       LET d(b) == IF event.geom[b].custom_shape.kind = "BROKEN"
                   THEN HeadDistSq(event.geom[b], event.mouse)
                   ELSE ProjectedDistSq(event.geom[b], event.mouse)
           within == {b \in PickTags :
                        d(b) >= 0 /\ d(b) < hitbox_size * hitbox_size}
           c == last'.chosen
       IN IF within = {} THEN c = NoBone
          ELSE c \in within /\ \A b \in within : d(c) <= d(b)]_vars

C7_Witness ==
  /\ last.op = "select_transform"
  /\ last.chosen_shape = "BROKEN"
  /\ last.contested

\* C8: a plain pick with the gizmo-user flag on starts no translate and leaves
\* the selection the same pick leaves with the flag off, for every tag set,
\* pointer position and prior selection.
C8_GizmoUserOnlySuppressesTranslate ==
  [][(PickStep /\ ~event.shift /\ gizmo_user) =>
       /\ ~last'.translate
       /\ \A order \in Orders(PickTags) :
            LET on == SelectTransformInvoke(tagged_bones, select, active, TRUE,
                        hitbox_size, event.mouse, event.shift, event.geom, order)
                off == SelectTransformInvoke(tagged_bones, select, active, FALSE,
                         hitbox_size, event.mouse, event.shift, event.geom, order)
            IN /\ on.chosen = off.chosen
               /\ on.select = off.select
               /\ on.chosen = last'.chosen => off.select = select']_vars

C8_Witness ==
  /\ last.op = "select_transform"
  /\ ~last.shift
  /\ gizmo_user
  /\ last.chosen # NoBone
  /\ ~last.translate

\* C9: a pick starts the translate interaction if and only if a bone was
\* chosen, Shift was not held and the gizmo-user flag is off; a Shift pick
\* adds the chosen bone to the selection and starts no transform.
C9_TranslateIff ==
  [][PickStep =>
       /\ last'.translate <=>
            (last'.chosen # NoBone /\ ~event.shift /\ ~gizmo_user)
       /\ (event.shift /\ last'.chosen # NoBone) =>
            /\ select'[active] = select[active] \cup {last'.chosen}
            /\ ~last'.translate]_vars

C9_Witness ==
  /\ last.op = "select_transform"
  /\ last.translate

\* C10: registration installs the classes, the scene property and exactly two
\* bindings of the pick command, both F / PRESS, one without and one with
\* Shift; after an unregister nothing of them remains and the keymap list is
\* empty.
C10_RegisterUnregister ==
  /\ (last.op = "register" /\ last.result = "RETURNED") =>
       /\ registered_classes = {ClassList[i] : i \in 1..Len(ClassList)}
       /\ scene_prop
       /\ Len(keymap_items) = 2
       /\ \A k \in 1..2 :
            /\ keymap_items[k].idname = "clay_magnet.select_transform"
            /\ keymap_items[k].type = "F"
            /\ keymap_items[k].value = "PRESS"
       /\ {keymap_items[k].shift : k \in 1..2} = {FALSE, TRUE}
       /\ Len(keymaps) = 2
       /\ {keymaps[k] : k \in 1..2} = {keymap_items[k].id : k \in 1..2}
  /\ last.op = "unregister" =>
       /\ keymap_items = <<>>
       /\ registered_classes = {}
       /\ ~scene_prop
       /\ keymaps = <<>>

C10_Witness ==
  /\ last.op = "unregister"
  /\ last.result = "RETURNED"
  /\ DOMAIN tagged_bones # {}
====
